---- MODULE Spec2Model ----
(***************************************************************************)
(* Model of the face-analysis endpoint of backend/server.py (_face,        *)
(* _default) and of the module-level smoothing state it mutates.           *)
(*                                                                         *)
(* Units.  Python floats are modelled as exact rationals held in scaled    *)
(* integers:                                                               *)
(*   - landmark-derived features and fatigue_score / blink_rate: 1/1000    *)
(*   - roll: whole degrees (signed)                                        *)
(*   - distraction values: 1/100                                           *)
(*   - emotion confidence: 1/100                                           *)
(*   - th_ear_x2, th_nose_x2: twice the threshold, in 1/1000               *)
(*   - th_mouth_x10, th_brow_x10: ten times the threshold, in 1/1000       *)
(* round(x, k) is modelled on the exact rational; where the exact value is *)
(* a tie between two neighbours the float result may fall on either side,  *)
(* so both neighbours are possible outcomes.                               *)
(***************************************************************************)
EXTENDS Integers, Sequences, FiniteSets, TLC

VARIABLES
    MEDIAPIPE_OK,         \* server.py:30/47, fixed at import time
    CALIB,                \* server.py:56-60, fixed at import time
    prev_emotion,         \* server.py:70
    prev_conf,            \* server.py:71
    head_down_n,          \* server.py:72
    eyes_low_n,           \* server.py:73
    gaze_history,         \* server.py:76
    distraction_history,  \* server.py:77
    frame,                \* the request last handled: its kind and features
    res,                  \* the dict last returned by _face
    nframes,              \* number of requests handled so far
    no_face_run,          \* history: consecutive no-landmark frames ending now
    same_run,             \* history: consecutive face frames with equal features
    same_inst_run,        \* history: consecutive face frames with equal features
                          \*          that pushed an equal instant distraction
    last_face,            \* history: (emotion, confidence) classified by the
                          \*          most recent face frame
    face_log,             \* history: for every frame with landmarks so far,
                          \*          in order, 0 if its gaze was centred
                          \*          (|eye_x - nose_x| < 0.03), else 1
    th,                   \* server.py:224-237: _face's locals th_ear, th_nose,
                          \*          th_mouth, th_brow as last derived (scaled
                          \*          as above; -1 before any derivation)
    raw_d,                \* server.py:300-305: _face's local raw_d after the
                          \*          ramp, times len(gaze_history), in 1/100
                          \*          (-1 before the ramp has been evaluated)
    pc,                   \* per request run by the executor (server.py:171):
                          \*          the line of _face its thread is to run next
    loc,                  \* per request: its input and _face's locals
    session,              \* the monitoring session (client) whose request is
                          \*          handled next
    left,                 \* history: per session, the smoothing state as its
                          \*          own last request left it
    screen_req,           \* the upload last handled by _screen: its kind and
                          \*          image statistics (server.py:392-411)
    screen_res,           \* the dict last returned by _screen
    eye,                  \* the six contour points last given to ear()
    ear_out               \* what ear() returned for them, in 1/1000

vars == << MEDIAPIPE_OK, CALIB, prev_emotion, prev_conf, head_down_n, eyes_low_n,
           gaze_history, distraction_history, frame, res, nframes,
           no_face_run, same_run, same_inst_run, last_face,
           face_log, th, raw_d, pc, loc, session, left,
           screen_req, screen_res, eye, ear_out >>

state == << prev_emotion, prev_conf, head_down_n, eyes_low_n,
            gaze_history, distraction_history >>

env == << MEDIAPIPE_OK, CALIB >>

\* what a request without landmarks does not record
aux == << face_log, th, raw_d >>

\* the requests in the executor's threads
pool == << pc, loc >>

\* the screen endpoint and the ear() helper on its own
side == << screen_req, screen_res, eye, ear_out >>

\* what is recorded of requests handled one at a time
serial == << frame, res, nframes, no_face_run, same_run, same_inst_run,
            last_face, aux, session, left, side >>

\* history: the session being served has left the state as it is after this
\* request
Leaves ==
    /\ left' = [left EXCEPT ![session] = state']
    /\ UNCHANGED session

----------------------------------------------------------------------------
(* Arithmetic helpers *)

Max(a, b) == IF a >= b THEN a ELSE b

Min(a, b) == IF a <= b THEN a ELSE b

Abs(a) == IF a < 0 THEN -a ELSE a

RECURSIVE Sum(_)
Sum(s) == IF s = << >> THEN 0 ELSE Head(s) + Sum(Tail(s))

\* round(num/den, k) in units of 10^-k, for num >= 0, den > 0: the nearest
\* integer, either neighbour on an exact tie.
RoundSet(num, den) ==
    LET q == num \div den
        r == num % den
    IN  IF 2 * r < den THEN {q}
        ELSE IF 2 * r > den THEN {q + 1}
        ELSE {q, q + 1}

----------------------------------------------------------------------------
(* Calibration profile and the thresholds derived from it (server.py:222-237) *)

\* calibration.json absent or unreadable: CALIB stays {} (server.py:56-63)
EmptyCalib == [c \in {} |-> 0]

\* a calibration.json as calibrate.py writes it, all derived categories present
FullCalib ==
    [ fatigue |-> [avg |-> [ear |-> 200, nose_pos |-> 720]],
      focus   |-> [avg |-> [ear |-> 300, nose_pos |-> 560]],
      happy   |-> [avg |-> [mouth_ratio |-> 150]],
      sad     |-> [avg |-> [brow_raise |-> 10]] ]

CalibProfiles == {EmptyCalib, FullCalib}

has(C, cat) == cat \in DOMAIN C

\* CALIB[cat]["avg"][k] can be looked up for every k in keys
HasAvg(C, cat, keys) ==
    /\ "avg" \in DOMAIN C[cat]
    /\ keys \subseteq DOMAIN C[cat].avg

\* server.py:229-237: one of the subscripts raises KeyError
KeyErrorIn(C) ==
    \/ /\ has(C, "fatigue") /\ has(C, "focus")
       /\ ~ ( /\ HasAvg(C, "fatigue", {"ear", "nose_pos"})
              /\ HasAvg(C, "focus", {"ear", "nose_pos"}) )
    \/ has(C, "happy") /\ ~HasAvg(C, "happy", {"mouth_ratio"})
    \/ has(C, "sad") /\ ~HasAvg(C, "sad", {"brow_raise"})

\* mutant: th_ear taken from the fatigue recording, not the mean of the two
th_ear_x2_FatigueOnly(C) ==
    IF has(C, "fatigue") /\ has(C, "focus")
    THEN 2 * C["fatigue"].avg.ear
    ELSE 440

\* twice th_ear, in 1/1000
th_ear_x2(C) ==
    IF has(C, "fatigue") /\ has(C, "focus")
    THEN C["fatigue"].avg.ear + C["focus"].avg.ear
    ELSE 440

\* twice th_nose, in 1/1000
th_nose_x2(C) ==
    IF has(C, "fatigue") /\ has(C, "focus")
    THEN C["fatigue"].avg.nose_pos + C["focus"].avg.nose_pos
    ELSE 1300

\* ten times th_mouth, in 1/1000
th_mouth_x10(C) ==
    IF has(C, "happy") THEN C["happy"].avg.mouth_ratio * 7 ELSE 800

\* ten times th_brow, in 1/1000
th_brow_x10(C) ==
    IF has(C, "sad") THEN C["sad"].avg.brow_raise * 12 ELSE 150

\* server.py:224-237: the four locals
Thresholds(C) ==
    [ ear_x2 |-> th_ear_x2(C), nose_x2 |-> th_nose_x2(C),
      mouth_x10 |-> th_mouth_x10(C), brow_x10 |-> th_brow_x10(C) ]

\* no frame has derived thresholds yet
NoThresholds ==
    [ ear_x2 |-> -1, nose_x2 |-> -1, mouth_x10 |-> -1, brow_x10 |-> -1 ]

----------------------------------------------------------------------------
(* The steps of _face on a frame with landmarks.  f is the record of the   *)
(* features the code derives from the landmarks (server.py:240-330):       *)
(* ear (avg_ear), nose_pos, roll, gaze_dx (eye_x - nose_x), m_ratio,       *)
(* lip_stretch, brow_raise.                                                *)

\* deque(maxlen=10).append
MaxLen == 10

\* mutant: an unbounded list, nothing evicted
appendNoEvict(q, x) == Append(q, x)

append(q, x) ==
    IF Len(q) < MaxLen THEN Append(q, x) ELSE Append(Tail(q), x)

\* mutant: the decay not stopped at 0
HeadDownNoFloor(n, f, C) ==
    IF 2 * f.nose_pos > th_nose_x2(C) THEN n + 1 ELSE n - 1

\* server.py:257-261, the counter
HeadDownUpdate(n, f, C) ==
    IF 2 * f.nose_pos > th_nose_x2(C) THEN n + 1 ELSE Max(0, n - 1)

\* mutant: open eyes clear the counter at once
EyesLowUpdateReset(n, f, C) ==
    IF 2 * f.ear < th_ear_x2(C) THEN n + 1 ELSE 0

\* server.py:269-272
EyesLowUpdate(n, f, C) ==
    IF 2 * f.ear < th_ear_x2(C) THEN n + 1 ELSE Max(0, n - 1)

\* server.py:266, in 1/1000: (nose_pos - 0.8*th_nose) / 0.2 = 5*nose_pos - 2*(2*th_nose)
pitch_f(f, C) == Max(0, Min(1000, 5 * f.nose_pos - 2 * th_nose_x2(C)))

\* server.py:267 as a fraction EarNum/EarDen with EarDen > 0:
\* (1.2*th_ear - ear) / (0.5*th_ear) = (12*T - 20*ear) / (5*T), T = 2*th_ear
EarDen(C) == 5 * Abs(th_ear_x2(C))

EarNum(f, C) ==
    LET T == th_ear_x2(C)
        n == IF T > 0 THEN 12 * T - 20 * f.ear ELSE 20 * f.ear - 12 * T
    IN  Max(0, Min(EarDen(C), n))

\* server.py:277 as a fraction RollNum/18
RollNum(f) == Min(Abs(f.roll), 18)

\* server.py:282-284.  1000 * (0.35p + 0.35e + 0.15r + 0.15*min(n/5, 1)) over
\* the common denominator 60*EarDen, clamped to [0.02, 0.98], rounded to 3 places.
FatigueDen(C) == 60 * EarDen(C)

FatigueNum(f, n, C) ==
    21 * pitch_f(f, C) * EarDen(C)
  + 21000 * EarNum(f, C)
  + 500 * RollNum(f) * EarDen(C)
  + 1800 * Min(n, 5) * EarDen(C)

\* mutant: the clamp to [0.02, 0.98] left out
FatigueNoClamp(f, n, C) == RoundSet(FatigueNum(f, n, C), FatigueDen(C))

Fatigue(f, n, C) ==
    RoundSet(Max(20 * FatigueDen(C), Min(980 * FatigueDen(C), FatigueNum(f, n, C))),
             FatigueDen(C))

\* mutant: a stored emotion of tired also counts for the stressed test
BodyActionStressedWhenTired(f, fatigue, n, emotion, C) ==
    LET a1 == IF 2 * f.nose_pos > th_nose_x2(C) THEN "head_down" ELSE "normal"
        a2 == IF 10 * f.nose_pos < 3 * th_nose_x2(C) THEN "looking_up" ELSE a1
        a3 == IF Abs(f.roll) > 15 THEN "head_tilt" ELSE a2
    IN  IF fatigue > 500 /\ n > 3 /\ emotion \in {"sad", "neutral", "fear", "tired"}
        THEN "stressed" ELSE a3

\* mutant: the tilt test at 278-279 left out
BodyActionNoTilt(f, fatigue, n, emotion, C) ==
    LET a1 == IF 2 * f.nose_pos > th_nose_x2(C) THEN "head_down" ELSE "normal"
        a2 == IF 10 * f.nose_pos < 3 * th_nose_x2(C) THEN "looking_up" ELSE a1
    IN  IF fatigue > 500 /\ n > 3 /\ emotion \in {"sad", "neutral", "fear"}
        THEN "stressed" ELSE a2

\* mutant: the tilt test ahead of the head-down test, so head_down wins
BodyActionDownOverTilt(f, fatigue, n, emotion, C) ==
    LET a1 == IF Abs(f.roll) > 15 THEN "head_tilt" ELSE "normal"
        a2 == IF 2 * f.nose_pos > th_nose_x2(C) THEN "head_down" ELSE a1
        a3 == IF 10 * f.nose_pos < 3 * th_nose_x2(C) THEN "looking_up" ELSE a2
    IN  IF fatigue > 500 /\ n > 3 /\ emotion \in {"sad", "neutral", "fear"}
        THEN "stressed" ELSE a3

\* server.py:187, 257-264, 278-279, 286-288: the label after every assignment
BodyAction(f, fatigue, n, emotion, C) ==
    LET a1 == IF 2 * f.nose_pos > th_nose_x2(C) THEN "head_down" ELSE "normal"
        a2 == IF 10 * f.nose_pos < 3 * th_nose_x2(C) THEN "looking_up" ELSE a1
        a3 == IF Abs(f.roll) > 15 THEN "head_tilt" ELSE a2
    IN  IF fatigue > 500 /\ n > 3 /\ emotion \in {"sad", "neutral", "fear"}
        THEN "stressed" ELSE a3

\* server.py:291-293
Gaze(f) ==
    IF Abs(f.gaze_dx) < 30 THEN "CENTER"
    ELSE IF f.gaze_dx > 0 THEN "RIGHT" ELSE "LEFT"

\* mutant: only a gaze to the right counted as off-centre
IsOffCenterRightOnly(f) == IF Gaze(f) = "RIGHT" THEN 1 ELSE 0

\* server.py:296
IsOffCenter(f) == IF Gaze(f) # "CENTER" THEN 1 ELSE 0

\* mutant: the lower branch taken from off_ratio = 0.3 on
RampFromThreeTenths(k, m) ==
    IF 10 * k > 6 * m THEN 4000 * k
    ELSE IF 10 * k >= 3 * m THEN 1500 * k
    ELSE 0

\* server.py:300-305: the ramp at off_ratio = k / m, times m, in 1/100
Ramp(k, m) ==
    IF 10 * k > 6 * m THEN 4000 * k
    ELSE IF 10 * k > 3 * m THEN 1500 * k
    ELSE 0

\* mutant: the head-down bonus taken from the streak before this frame
RawDNumStreakBefore(gh, f, action, n) ==
    LET k == Sum(gh)
        m == Max(Len(gh), 1)
        tilt == IF Abs(f.roll) > 15 /\ 10 * k > 4 * m THEN 1000 * m ELSE 0
        down == IF action = "head_down" /\ n - 1 > 5 THEN 1500 * m ELSE 0
    IN  Ramp(k, m) + tilt + down

\* server.py:298-310 on the window gh after the push: raw_d * len(gh), in 1/100
RawDNum(gh, f, action, n) ==
    LET k == Sum(gh)
        m == Max(Len(gh), 1)
        tilt == IF Abs(f.roll) > 15 /\ 10 * k > 4 * m THEN 1000 * m ELSE 0
        down == IF action = "head_down" /\ n > 5 THEN 1500 * m ELSE 0
    IN  Ramp(k, m) + tilt + down

\* mutant: the floor of 2 left out of the clamp
InstantNoFloor(gh, f, action, n) ==
    LET m == Max(Len(gh), 1)
    IN  RoundSet(Min(9500 * m, RawDNum(gh, f, action, n)), m)

\* server.py:312: round(max(2, min(95, raw_d)), 2)
Instant(gh, f, action, n) ==
    LET m == Max(Len(gh), 1)
    IN  RoundSet(Max(200 * m, Min(9500 * m, RawDNum(gh, f, action, n))), m)

\* mutant: the sum divided by one more than the number of entries
MeanOffByOne(dh) == RoundSet(Sum(dh), Len(dh) + 1)

\* server.py:314: round(sum(dh) / max(len(dh), 1), 2)
Mean(dh) == RoundSet(Sum(dh), Max(Len(dh), 1))

\* mutant: the low-brow test moved ahead of the closed-eyes, head-down test
EmotionLowBrowFirst(f, fatigue, el, C) ==
    LET low == 2 * f.ear < th_ear_x2(C)
    IN  IF 10 * f.m_ratio > 4 * th_mouth_x10(C) /\ 4 * f.brow_raise > th_brow_x10(C)
        THEN << "surprised", 90 >>
        ELSE IF 10 * f.m_ratio > th_mouth_x10(C) /\ f.lip_stretch > 140
        THEN << "happy", 85 >>
        ELSE IF 10 * f.brow_raise < th_brow_x10(C) /\ 20 * f.m_ratio < th_mouth_x10(C)
        THEN (IF low THEN << "sad", 75 >> ELSE << "angry", 70 >>)
        ELSE IF low /\ pitch_f(f, C) > 500
        THEN << "tired", 90 >>
        ELSE IF fatigue > 600
        THEN << "tired", 85 >>
        ELSE IF el > 4
        THEN << "tired", 80 >>
        ELSE << "neutral", 90 >>

\* server.py:332-359: <<emotion, confidence>>
Emotion(f, fatigue, el, C) ==
    LET low == 2 * f.ear < th_ear_x2(C)
    IN  IF 10 * f.m_ratio > 4 * th_mouth_x10(C) /\ 4 * f.brow_raise > th_brow_x10(C)
        THEN << "surprised", 90 >>
        ELSE IF 10 * f.m_ratio > th_mouth_x10(C) /\ f.lip_stretch > 140
        THEN << "happy", 85 >>
        ELSE IF low /\ pitch_f(f, C) > 500
        THEN << "tired", 90 >>
        ELSE IF 10 * f.brow_raise < th_brow_x10(C) /\ 20 * f.m_ratio < th_mouth_x10(C)
        THEN (IF low THEN << "sad", 75 >> ELSE << "angry", 70 >>)
        ELSE IF fatigue > 600
        THEN << "tired", 85 >>
        ELSE IF el > 4
        THEN << "tired", 80 >>
        ELSE << "neutral", 90 >>


----------------------------------------------------------------------------
(* Results returned by _face *)

\* server.py:374-380
_default ==
    [ fatigue_score |-> 50, gaze_direction |-> "UNKNOWN",
      distraction_score |-> 500, blink_rate |-> 300,
      emotion |-> prev_emotion, emotion_confidence |-> 30,
      body_action |-> "unknown" ]

\* server.py:181-201: Haar cascade fallback, faces = number of faces detected
HaarResult(faces, emotion, conf) ==
    [ fatigue_score |-> 50, gaze_direction |-> "CENTER",
      distraction_score |-> IF faces = 0 THEN 6000 ELSE 500, blink_rate |-> 280,
      emotion |-> emotion, emotion_confidence |-> conf,
      body_action |-> IF faces = 0 THEN "no_face" ELSE "normal" ]

\* mutant: a fixed default pair instead of the stored one
NoFaceResultDefaultEmotion(n, emotion, conf) ==
    [ fatigue_score |-> 50, gaze_direction |-> "UNKNOWN",
      distraction_score |-> IF n > 5 THEN 5000 ELSE 500, blink_rate |-> 280,
      emotion |-> "neutral", emotion_confidence |-> 50,
      body_action |-> IF n > 5 THEN "no_face" ELSE "normal" ]

\* server.py:181-187, 210-218: n is head_down_n after the increment of line 209
NoFaceResult(n, emotion, conf) ==
    [ fatigue_score |-> 50, gaze_direction |-> "UNKNOWN",
      distraction_score |-> IF n > 5 THEN 5000 ELSE 500, blink_rate |-> 280,
      emotion |-> emotion, emotion_confidence |-> conf,
      body_action |-> IF n > 5 THEN "no_face" ELSE "normal" ]

\* the features of a request that carries none
NoFeat ==
    [ ear |-> 0, nose_pos |-> 0, roll |-> 0, gaze_dx |-> 0,
      m_ratio |-> 0, lip_stretch |-> 0, brow_raise |-> 0 ]

\* server.py:168-171: _face raised, the exception leaves analyze_face and the
\* client gets an error response instead of a result
ServerError ==
    [ fatigue_score |-> 0, gaze_direction |-> "error",
      distraction_score |-> 0, blink_rate |-> 0,
      emotion |-> "error", emotion_confidence |-> 0,
      body_action |-> "error" ]

NoResult ==
    [ fatigue_score |-> 0, gaze_direction |-> "none",
      distraction_score |-> 0, blink_rate |-> 0,
      emotion |-> "none", emotion_confidence |-> 0,
      body_action |-> "none" ]

\* the monitoring sessions (clients) that post frames to the one process
Sessions == {1, 2}

\* nothing posted to /analyze-screen yet
NoScreen ==
    [ kind |-> "none", dark_pix |-> 0, edge_d |-> 0, uniform |-> 0,
      color_std |-> 0, avg_bright |-> 0 ]

NoScreenResult == [ activity |-> "none", distraction_score |-> 0 ]

\* ear() not called yet
NoEye == << >>

\* requests in the executor at once; request t is the t-th received
MaxRequests == 2

Requests == 1..MaxRequests

\* _face's locals before line 181, and no input
NoLocals ==
    [ kind |-> "none", feat |-> NoFeat, emotion |-> "none", conf |-> 0,
      tmp |-> 0, fatigue |-> 0, action |-> "none", inst |-> 0,
      new |-> << "none", 0 >>, res |-> NoResult ]

----------------------------------------------------------------------------
(* State after import of server.py *)

Init ==
    /\ MEDIAPIPE_OK \in BOOLEAN
    /\ CALIB \in CalibProfiles
    /\ prev_emotion = "neutral"
    /\ prev_conf = 50
    /\ head_down_n = 0
    /\ eyes_low_n = 0
    /\ gaze_history = << >>
    /\ distraction_history = << >>
    /\ frame = [kind |-> "none", feat |-> NoFeat]
    /\ res = NoResult
    /\ nframes = 0
    /\ no_face_run = 0
    /\ same_run = 0
    /\ same_inst_run = 0
    /\ last_face = << "neutral", 50 >>
    /\ face_log = << >>
    /\ th = NoThresholds
    /\ raw_d = -1
    /\ pc = [t \in Requests |-> "idle"]
    /\ loc = [t \in Requests |-> NoLocals]
    /\ session = 1
    /\ left = [c \in Sessions |-> state]
    /\ screen_req = NoScreen
    /\ screen_res = NoScreenResult
    /\ eye = NoEye
    /\ ear_out = -1

----------------------------------------------------------------------------
(* One action per way through _face (requests are handled one at a time)   *)

\* server.py:177-179: decode() returned None
Undecodable ==
    /\ res' = _default
    /\ frame' = [kind |-> "undecodable", feat |-> NoFeat]
    /\ nframes' = nframes + 1
    /\ no_face_run' = 0
    /\ same_run' = 0
    /\ same_inst_run' = 0
    /\ UNCHANGED << state, env, last_face, aux, pool, side >>
    /\ Leaves

\* server.py:189-201: no landmark detector, Haar cascade only
HaarFrame(faces) ==
    /\ ~MEDIAPIPE_OK
    /\ res' = HaarResult(faces, prev_emotion, prev_conf)
    /\ frame' = [kind |-> IF faces = 0 THEN "haar_no_face" ELSE "haar_face",
                 feat |-> NoFeat]
    /\ nframes' = nframes + 1
    /\ no_face_run' = IF faces = 0 THEN no_face_run + 1 ELSE 0
    /\ same_run' = 0
    /\ same_inst_run' = 0
    /\ UNCHANGED << state, env, last_face, aux, pool, side >>
    /\ Leaves

\* server.py:204-218: the detector returned no landmarks
NoFaceFrame ==
    /\ MEDIAPIPE_OK
    /\ head_down_n' = head_down_n + 1
    /\ res' = NoFaceResult(head_down_n', prev_emotion, prev_conf)
    /\ frame' = [kind |-> "no_face", feat |-> NoFeat]
    /\ nframes' = nframes + 1
    /\ no_face_run' = no_face_run + 1
    /\ same_run' = 0
    /\ same_inst_run' = 0
    /\ UNCHANGED << prev_emotion, prev_conf, eyes_low_n, gaze_history,
                    distraction_history, env, last_face, aux, pool, side >>
    /\ Leaves

\* server.py:220-371: landmarks present, features f
FaceFrame(f) ==
    /\ MEDIAPIPE_OK
    /\ ~KeyErrorIn(CALIB)
    /\ th_ear_x2(CALIB) # 0
    /\ LET hd == HeadDownUpdate(head_down_n, f, CALIB)
           el == EyesLowUpdate(eyes_low_n, f, CALIB)
           gh == append(gaze_history, IsOffCenter(f))
       IN  \E fatigue \in Fatigue(f, hd, CALIB) :
           LET action == BodyAction(f, fatigue, hd, prev_emotion, CALIB)
               emo == Emotion(f, fatigue, el, CALIB)
           IN  \E inst \in Instant(gh, f, action, hd) :
               LET dh == append(distraction_history, inst)
               IN  \E distraction \in Mean(dh) :
                   /\ head_down_n' = hd
                   /\ eyes_low_n' = el
                   /\ gaze_history' = gh
                   /\ distraction_history' = dh
                   /\ prev_emotion' = emo[1]
                   /\ prev_conf' = emo[2]
                   /\ res' = [ fatigue_score |-> fatigue,
                               gaze_direction |-> Gaze(f),
                               distraction_score |-> distraction,
                               blink_rate |-> f.ear,
                               emotion |-> emo[1],
                               emotion_confidence |-> emo[2],
                               body_action |-> action ]
                   /\ last_face' = emo
                   /\ same_inst_run' =
                        IF /\ frame.kind = "face" /\ frame.feat = f
                           /\ distraction_history[Len(distraction_history)] = inst
                        THEN same_inst_run + 1 ELSE 1
    /\ frame' = [kind |-> "face", feat |-> f]
    /\ nframes' = nframes + 1
    /\ no_face_run' = 0
    /\ same_run' = IF frame.kind = "face" /\ frame.feat = f THEN same_run + 1 ELSE 1
    /\ face_log' = Append(face_log, IF Abs(f.gaze_dx) < 30 THEN 0 ELSE 1)
    /\ th' = Thresholds(CALIB)
    /\ Leaves
    /\ UNCHANGED << env, raw_d, pool, side >>

\* server.py:220-267: landmarks present, features f, and the threshold
\* derivation raises KeyError (229-237, before any write) or ear_f divides by
\* th_ear * 0.5 = 0 (267, after head_down_n was written at 257-261)
FaceFrameRaises(f) ==
    /\ MEDIAPIPE_OK
    /\ IF KeyErrorIn(CALIB)
       THEN UNCHANGED << head_down_n, th >>
       ELSE /\ th_ear_x2(CALIB) = 0
            /\ head_down_n' = HeadDownUpdate(head_down_n, f, CALIB)
            /\ th' = Thresholds(CALIB)
    /\ res' = ServerError
    /\ frame' = [kind |-> "raised", feat |-> f]
    /\ nframes' = nframes + 1
    /\ no_face_run' = 0
    /\ same_run' = 0
    /\ same_inst_run' = 0
    /\ UNCHANGED << prev_emotion, prev_conf, eyes_low_n, gaze_history,
                    distraction_history, env, last_face, face_log, raw_d,
                    pool, side >>
    /\ Leaves

\* server.py:177-179 on an upload of zero bytes: cv2.imdecode (line 91) is
\* given an empty buffer, which it rejects with cv2.error or answers with
\* None according to the OpenCV build; nothing catches the error
EmptyUpload ==
    /\ res' \in { ServerError, _default }
    /\ frame' = [kind |-> "empty", feat |-> NoFeat]
    /\ nframes' = nframes + 1
    /\ no_face_run' = 0
    /\ same_run' = 0
    /\ same_inst_run' = 0
    /\ UNCHANGED << state, env, last_face, aux, pool, side >>
    /\ Leaves

----------------------------------------------------------------------------
(* The screen endpoint (server.py:386-423).  st is the record of the image  *)
(* statistics _screen computes at 397-411: dark_pix, edge_d and uniform in  *)
(* 1/100, color_std and avg_bright in grey levels.                          *)

\* mutant: the edge test for READING ahead of the dark-background test
ClassifyReadingFirst(st) ==
    IF st.edge_d > 12
    THEN [ activity |-> "READING", distraction_score |-> 800 ]
    ELSE IF st.dark_pix > 40 /\ st.edge_d > 8
    THEN [ activity |-> "CODING", distraction_score |-> 300 ]
    ELSE IF st.uniform > 85 /\ st.color_std > 40
    THEN [ activity |-> "WATCHING", distraction_score |-> 4500 ]
    ELSE IF st.color_std > 50 /\ st.edge_d < 6
    THEN [ activity |-> "SOCIAL_MEDIA", distraction_score |-> 6000 ]
    ELSE IF st.avg_bright < 30 /\ st.edge_d < 3
    THEN [ activity |-> "IDLE", distraction_score |-> 2000 ]
    ELSE [ activity |-> "BROWSING", distraction_score |-> 1500 ]

\* server.py:410, 413-423
Classify(st) ==
    IF st.dark_pix > 40 /\ st.edge_d > 8
    THEN [ activity |-> "CODING", distraction_score |-> 300 ]
    ELSE IF st.edge_d > 12
    THEN [ activity |-> "READING", distraction_score |-> 800 ]
    ELSE IF st.uniform > 85 /\ st.color_std > 40
    THEN [ activity |-> "WATCHING", distraction_score |-> 4500 ]
    ELSE IF st.color_std > 50 /\ st.edge_d < 6
    THEN [ activity |-> "SOCIAL_MEDIA", distraction_score |-> 6000 ]
    ELSE IF st.avg_bright < 30 /\ st.edge_d < 3
    THEN [ activity |-> "IDLE", distraction_score |-> 2000 ]
    ELSE [ activity |-> "BROWSING", distraction_score |-> 1500 ]

\* server.py:386-390: _screen raised, the client gets an error response
ScreenError == [ activity |-> "error", distraction_score |-> 0 ]

Stats(dk, ed, un, cs, br) ==
    [ kind |-> "image", dark_pix |-> dk, edge_d |-> ed, uniform |-> un,
      color_std |-> cs, avg_bright |-> br ]

\* mutant: the screen score pushed onto the face pipeline's window
ScreenFramePushesScore(st) ==
    /\ screen_req' = st
    /\ screen_res' = Classify(st)
    /\ distraction_history' =
         append(distraction_history, Classify(st).distraction_score)
    /\ UNCHANGED << prev_emotion, prev_conf, head_down_n, eyes_low_n,
                    gaze_history, env, frame, res, nframes, no_face_run,
                    same_run, same_inst_run, last_face, aux, pool, session,
                    left, eye, ear_out >>

\* server.py:392-423: a decodable image with statistics st
ScreenFrame(st) ==
    /\ screen_req' = st
    /\ screen_res' = Classify(st)
    /\ UNCHANGED << state, env, frame, res, nframes, no_face_run, same_run,
                    same_inst_run, last_face, aux, pool, session, left,
                    eye, ear_out >>

\* server.py:392-395: decode() returned None
ScreenUndecodable ==
    /\ screen_req' = [NoScreen EXCEPT !.kind = "undecodable"]
    /\ screen_res' = [ activity |-> "UNKNOWN", distraction_score |-> 1000 ]
    /\ UNCHANGED << state, env, frame, res, nframes, no_face_run, same_run,
                    same_inst_run, last_face, aux, pool, session, left,
                    eye, ear_out >>

\* server.py:392-395 on an upload of zero bytes (see EmptyUpload)
ScreenEmptyUpload ==
    /\ screen_req' = [NoScreen EXCEPT !.kind = "empty"]
    /\ screen_res' \in { ScreenError,
                          [ activity |-> "UNKNOWN", distraction_score |-> 1000 ] }
    /\ UNCHANGED << state, env, frame, res, nframes, no_face_run, same_run,
                    same_inst_run, last_face, aux, pool, session, left,
                    eye, ear_out >>

\* server.py:168-171: the next request comes from client c; a request carries
\* no session identifier and analyze_face keeps none
Connect(c) ==
    /\ c # session
    /\ session' = c
    /\ UNCHANGED << state, env, frame, res, nframes, no_face_run, same_run,
                    same_inst_run, last_face, aux, left, side, pool >>

----------------------------------------------------------------------------
(* _face run by the executor's threads (server.py:171): analyze_face hands   *)
(* every request to the default thread pool and takes no lock, so the       *)
(* threads interleave between any two bytecodes.  One action per read or    *)
(* write of a global; pc[t] is the line request t runs next.                *)

Step(t, from, to, l) ==
    /\ pc[t] = from
    /\ pc' = [pc EXCEPT ![t] = to]
    /\ loc' = [loc EXCEPT ![t] = l]

\* server.py:169-171: the t-th request is received and handed to the pool
Receive(t, inp) ==
    /\ MEDIAPIPE_OK
    /\ \A u \in Requests : u < t => pc[u] # "idle"
    /\ Step(t, "idle", "181", [NoLocals EXCEPT !.kind = inp.kind, !.feat = inp.feat])
    /\ UNCHANGED << state, env, serial >>

\* server.py:181
ReadPrevEmotion(t) ==
    /\ Step(t, "181", "182", [loc[t] EXCEPT !.emotion = prev_emotion])
    /\ UNCHANGED << state, env, serial >>

\* server.py:182-208
ReadPrevConf(t) ==
    /\ Step(t, "182", IF loc[t].kind = "no_face" THEN "209" ELSE "257",
            [loc[t] EXCEPT !.conf = prev_conf])
    /\ UNCHANGED << state, env, serial >>

\* server.py:209, head_down_n += 1: the load
LoadNoFaceCount(t) ==
    /\ Step(t, "209", "209s", [loc[t] EXCEPT !.tmp = head_down_n])
    /\ UNCHANGED << state, env, serial >>

\* server.py:209, head_down_n += 1: the store
StoreNoFaceCount(t) ==
    /\ Step(t, "209s", "210", loc[t])
    /\ head_down_n' = loc[t].tmp + 1
    /\ UNCHANGED << prev_emotion, prev_conf, eyes_low_n, gaze_history,
                    distraction_history, env, serial >>

\* server.py:210-218
ReturnNoFace(t) ==
    /\ Step(t, "210", "done",
            [NoLocals EXCEPT !.kind = "no_face",
                             !.res = NoFaceResult(head_down_n, loc[t].emotion,
                                                  loc[t].conf)])
    /\ UNCHANGED << state, env, serial >>

\* server.py:257-261: the load of head_down_n
LoadHeadDown(t) ==
    /\ Step(t, "257", "258", [loc[t] EXCEPT !.tmp = head_down_n])
    /\ UNCHANGED << state, env, serial >>

\* server.py:257-261: the store of head_down_n
StoreHeadDown(t) ==
    /\ Step(t, "258", "269", loc[t])
    /\ head_down_n' = HeadDownUpdate(loc[t].tmp, loc[t].feat, CALIB)
    /\ UNCHANGED << prev_emotion, prev_conf, eyes_low_n, gaze_history,
                    distraction_history, env, serial >>

\* server.py:269-272: the load of eyes_low_n
LoadEyesLow(t) ==
    /\ Step(t, "269", "270", [loc[t] EXCEPT !.tmp = eyes_low_n])
    /\ UNCHANGED << state, env, serial >>

\* server.py:269-272: the store of eyes_low_n
StoreEyesLow(t) ==
    /\ Step(t, "270", "282", loc[t])
    /\ eyes_low_n' = EyesLowUpdate(loc[t].tmp, loc[t].feat, CALIB)
    /\ UNCHANGED << prev_emotion, prev_conf, head_down_n, gaze_history,
                    distraction_history, env, serial >>

\* server.py:275-288: fatigue and the label, from head_down_n as it is now
FatigueAndAction(t) ==
    /\ \E fatigue \in Fatigue(loc[t].feat, head_down_n, CALIB) :
         Step(t, "282", "297",
              [loc[t] EXCEPT !.fatigue = fatigue,
                             !.action = BodyAction(loc[t].feat, fatigue, head_down_n,
                                                   loc[t].emotion, CALIB)])
    /\ UNCHANGED << state, env, serial >>

\* server.py:291-297
PushGaze(t) ==
    /\ Step(t, "297", "298", loc[t])
    /\ gaze_history' = append(gaze_history, IsOffCenter(loc[t].feat))
    /\ UNCHANGED << prev_emotion, prev_conf, head_down_n, eyes_low_n,
                    distraction_history, env, serial >>

\* server.py:298-312: from gaze_history and head_down_n as they are now
InstantDistraction(t) ==
    /\ \E inst \in Instant(gaze_history, loc[t].feat, loc[t].action, head_down_n) :
         Step(t, "298", "313", [loc[t] EXCEPT !.inst = inst])
    /\ UNCHANGED << state, env, serial >>

\* server.py:313
PushDistraction(t) ==
    /\ Step(t, "313", "314", loc[t])
    /\ distraction_history' = append(distraction_history, loc[t].inst)
    /\ UNCHANGED << prev_emotion, prev_conf, head_down_n, eyes_low_n,
                    gaze_history, env, serial >>

\* server.py:314-361: the mean, then the classification from eyes_low_n as it
\* is now
MeanAndEmotion(t) ==
    /\ \E distraction \in Mean(distraction_history) :
         Step(t, "314", "363",
              [loc[t] EXCEPT !.inst = distraction,
                             !.new = Emotion(loc[t].feat, loc[t].fatigue,
                                             eyes_low_n, CALIB)])
    /\ UNCHANGED << state, env, serial >>

\* server.py:363
StorePrevEmotion(t) ==
    /\ Step(t, "363", "364", loc[t])
    /\ prev_emotion' = loc[t].new[1]
    /\ UNCHANGED << prev_conf, head_down_n, eyes_low_n, gaze_history,
                    distraction_history, env, serial >>

\* server.py:364
StorePrevConf(t) ==
    /\ Step(t, "364", "366", loc[t])
    /\ prev_conf' = loc[t].new[2]
    /\ UNCHANGED << prev_emotion, head_down_n, eyes_low_n, gaze_history,
                    distraction_history, env, serial >>

\* server.py:366-371
ReturnFace(t) ==
    /\ Step(t, "366", "done",
            [NoLocals EXCEPT
               !.kind = "face",
               !.res = [ fatigue_score |-> loc[t].fatigue,
                         gaze_direction |-> Gaze(loc[t].feat),
                         distraction_score |-> loc[t].inst,
                         blink_rate |-> loc[t].feat.ear,
                         emotion |-> loc[t].new[1],
                         emotion_confidence |-> loc[t].new[2],
                         body_action |-> loc[t].action ]])
    /\ UNCHANGED << state, env, serial >>

----------------------------------------------------------------------------
(* Requests drawn by the environment *)

Feat(e, n, r, g, x) ==
    [ ear |-> e, nose_pos |-> n, roll |-> r, gaze_dx |-> g,
      m_ratio |-> x[1], lip_stretch |-> x[2], brow_raise |-> x[3] ]

\* <<m_ratio, lip_stretch, brow_raise>>: relaxed, low brows with closed mouth
Relaxed == << 60, 100, 20 >>

LowBrow == << 30, 100, 5 >>

\* frames over eyes closed/open, head up/level/down, head upright/tilted, two
\* expressions, gaze centred; a frame with the head at the tilt limit; and
\* head-down frames with the gaze off to the left or just off to the right
PoseFeatures ==
    { Feat(e, n, r, 0, x) :
        e \in {150, 300}, n \in {350, 600, 750}, r \in {0, -20},
        x \in {Relaxed, LowBrow} }
    \cup { Feat(300, 600, 15, 0, Relaxed) }
    \cup { Feat(300, 750, r, g, Relaxed) : r \in {0, 20}, g \in {-50, 30} }

\* frames that differ in gaze only (centred, off to the right), and a
\* head-down frame with the gaze off to the left
GazeFeatures ==
    { Feat(300, 600, 0, g, Relaxed) : g \in {0, 50} }
    \cup { Feat(300, 750, 0, -50, Relaxed) }

\* frames level and centred, tilted with the gaze off to the right, head down
\* with the gaze off to the left, and head down and tilted
DistractionFeatures ==
    { Feat(300, 600, 0, 0, Relaxed), Feat(300, 600, 20, 50, Relaxed),
      Feat(300, 750, 0, -50, Relaxed), Feat(300, 750, 20, -50, Relaxed) }

\* <<m_ratio, lip_stretch, brow_raise>>: mouth wide open under raised brows
\* (and wide lips), a smile, an open mouth under level brows
Startled == << 450, 160, 50 >>

Smile == << 110, 160, 20 >>

Gape == << 450, 100, 20 >>

\* frames over eyes closed/open, head level/down and five expressions, and a
\* frame with the eyes shut, the head level and tilted
EmotionFeatures ==
    { Feat(e, n, 0, 0, x) :
        e \in {150, 300}, n \in {600, 750},
        x \in {Relaxed, LowBrow, Startled, Smile, Gape} }
    \cup { Feat(50, 600, 20, 0, Relaxed) }

MaxFrames == 5

MaxWindowFrames == 12

MaxDistractionFrames == 8

MaxEmotionFrames == 5

\* Requests with varied head pose and expression, a few frames deep
Next ==
    \/ nframes < MaxFrames /\ Undecodable
    \/ nframes < MaxFrames /\ \E faces \in {0, 1} : HaarFrame(faces)
    \/ nframes < MaxFrames /\ NoFaceFrame
    \/ nframes < MaxFrames /\ \E f \in PoseFeatures : FaceFrame(f)

Spec == Init /\ [][Next]_vars

\* Requests with varied gaze under the fallback thresholds, long enough to
\* fill and turn over both windows
InitWindow == Init /\ CALIB = EmptyCalib

NextWindow ==
    \/ nframes < MaxWindowFrames /\ Undecodable
    \/ nframes < MaxWindowFrames /\ \E faces \in {0, 1} : HaarFrame(faces)
    \/ nframes < MaxWindowFrames /\ NoFaceFrame
    \/ nframes < MaxWindowFrames /\ \E f \in GazeFeatures : FaceFrame(f)

SpecWindow == InitWindow /\ [][NextWindow]_vars

\* Requests with varied gaze, tilt and head pose with the landmark detector
\* loaded, long enough for the head-down streak to pass 5
InitDistraction == Init /\ CALIB = EmptyCalib /\ MEDIAPIPE_OK

NextDistraction ==
    \/ nframes < MaxDistractionFrames /\ NoFaceFrame
    \/ nframes < MaxDistractionFrames /\ \E f \in DistractionFeatures : FaceFrame(f)

SpecDistraction == InitDistraction /\ [][NextDistraction]_vars

\* Requests with varied expression, under either calibration, with the
\* landmark detector loaded, long enough for the eyes-low streak to pass 4
InitEmotion == Init /\ MEDIAPIPE_OK

NextEmotion ==
    \/ nframes < MaxEmotionFrames /\ NoFaceFrame
    \/ nframes < MaxEmotionFrames /\ \E f \in EmotionFeatures : FaceFrame(f)

SpecEmotion == InitEmotion /\ [][NextEmotion]_vars

\* calibration.json as the import finds it: absent, not parseable as JSON, or
\* parsed.  Parsed profiles in calibrate.py's layout hold any subset of the
\* categories, with two recordings of fatigue and of happy to tell them apart
Avg(r) == << [sample_count |-> 30, avg |-> r] >>

CategoryOptions ==
    [ fatigue : { << >>, Avg([ear |-> 200, nose_pos |-> 720]),
                         Avg([ear |-> 160, nose_pos |-> 700]) },
      focus   : { << >>, Avg([ear |-> 300, nose_pos |-> 560]) },
      happy   : { << >>, Avg([mouth_ratio |-> 150]), Avg([mouth_ratio |-> 120]) },
      sad     : { << >>, Avg([brow_raise |-> 10]) },
      stress  : { << >>, Avg([ear |-> 250, nose_pos |-> 650]) } ]

Profile(opt) ==
    [ c \in { d \in DOMAIN opt : opt[d] # << >> } |-> opt[c][1] ]

WellFormedProfiles == { Profile(opt) : opt \in CategoryOptions }

\* parsed, but not as calibrate.py writes it: a category without its avg
\* record (alone, and next to the category it is averaged with), an avg
\* record without the feature read from it, and averages of zero
MalformedProfiles ==
    { [ fatigue |-> [sample_count |-> 0] ],
      [ fatigue |-> [sample_count |-> 0],
        focus |-> [sample_count |-> 30, avg |-> [ear |-> 300, nose_pos |-> 560]] ],
      [ happy |-> [sample_count |-> 30, avg |-> [ear |-> 300]] ],
      [ sad |-> [sample_count |-> 30, avg |-> [ear |-> 300]] ],
      [ fatigue |-> [sample_count |-> 30, avg |-> [ear |-> 0, nose_pos |-> 720]],
        focus |-> [sample_count |-> 30, avg |-> [ear |-> 0, nose_pos |-> 560]] ] }

CalibFiles ==
    { [present |-> FALSE, parses |-> FALSE, json |-> EmptyCalib],
      [present |-> TRUE, parses |-> FALSE, json |-> EmptyCalib] }
    \cup { [present |-> TRUE, parses |-> TRUE, json |-> C] :
             C \in WellFormedProfiles \cup MalformedProfiles }

\* server.py:55-63
Load(file) ==
    IF file.present /\ file.parses THEN file.json ELSE EmptyCalib

CalibFeatures ==
    { Feat(300, 600, 0, 0, Relaxed), Feat(150, 750, 0, 0, Relaxed) }

MaxCalibFrames == 2

InitCalib ==
    /\ MEDIAPIPE_OK = TRUE
    /\ \E file \in CalibFiles : CALIB = Load(file)
    /\ prev_emotion = "neutral"
    /\ prev_conf = 50
    /\ head_down_n = 0
    /\ eyes_low_n = 0
    /\ gaze_history = << >>
    /\ distraction_history = << >>
    /\ frame = [kind |-> "none", feat |-> NoFeat]
    /\ res = NoResult
    /\ nframes = 0
    /\ no_face_run = 0
    /\ same_run = 0
    /\ same_inst_run = 0
    /\ last_face = << "neutral", 50 >>
    /\ face_log = << >>
    /\ th = NoThresholds
    /\ raw_d = -1
    /\ pc = [t \in Requests |-> "idle"]
    /\ loc = [t \in Requests |-> NoLocals]
    /\ session = 1
    /\ left = [c \in Sessions |-> state]
    /\ screen_req = NoScreen
    /\ screen_res = NoScreenResult
    /\ eye = NoEye
    /\ ear_out = -1

NextCalib ==
    \/ nframes < MaxCalibFrames /\ NoFaceFrame
    \/ nframes < MaxCalibFrames /\ \E f \in CalibFeatures : FaceFrame(f)
    \/ nframes < MaxCalibFrames /\ \E f \in CalibFeatures : FaceFrameRaises(f)

SpecCalib == InitCalib /\ [][NextCalib]_vars

\* Requests that reach the executor together: no landmarks, a head-down frame
\* with closed eyes and the gaze off to the left, a level frame with low brows
PoolInputs ==
    { [kind |-> "no_face", feat |-> NoFeat],
      [kind |-> "face", feat |-> Feat(150, 750, 0, -50, Relaxed)],
      [kind |-> "face", feat |-> Feat(300, 600, 0, 0, LowBrow)] }

InitPool == Init /\ MEDIAPIPE_OK /\ CALIB = EmptyCalib

NextPool ==
    \/ \E t \in Requests : \E inp \in PoolInputs : Receive(t, inp)
    \/ \E t \in Requests : ReadPrevEmotion(t)
    \/ \E t \in Requests : ReadPrevConf(t)
    \/ \E t \in Requests : LoadNoFaceCount(t)
    \/ \E t \in Requests : StoreNoFaceCount(t)
    \/ \E t \in Requests : ReturnNoFace(t)
    \/ \E t \in Requests : LoadHeadDown(t)
    \/ \E t \in Requests : StoreHeadDown(t)
    \/ \E t \in Requests : LoadEyesLow(t)
    \/ \E t \in Requests : StoreEyesLow(t)
    \/ \E t \in Requests : FatigueAndAction(t)
    \/ \E t \in Requests : PushGaze(t)
    \/ \E t \in Requests : InstantDistraction(t)
    \/ \E t \in Requests : PushDistraction(t)
    \/ \E t \in Requests : MeanAndEmotion(t)
    \/ \E t \in Requests : StorePrevEmotion(t)
    \/ \E t \in Requests : StorePrevConf(t)
    \/ \E t \in Requests : ReturnFace(t)

SpecPool == InitPool /\ [][NextPool]_vars

\* Two clients posting frames in turn, one request at a time: a head-down
\* frame with the gaze off to the left, a level centred frame, and frames
\* without landmarks
SessionFeatures ==
    { Feat(300, 750, 0, -50, Relaxed), Feat(300, 600, 0, 0, LowBrow) }

MaxSessionFrames == 4

InitSessions == Init /\ MEDIAPIPE_OK /\ CALIB = EmptyCalib

NextSessions ==
    \/ \E c \in Sessions : Connect(c)
    \/ nframes < MaxSessionFrames /\ NoFaceFrame
    \/ nframes < MaxSessionFrames /\ \E f \in SessionFeatures : FaceFrame(f)

SpecSessions == InitSessions /\ [][NextSessions]_vars

\* Screen and face requests in any order, one at a time.  The image
\* statistics take values on both sides of every threshold of 413-423
ScreenStats ==
    { Stats(dk, ed, un, cs, br) :
        dk \in {40, 50}, ed \in {2, 3, 5, 6, 8, 10, 12, 13}, un \in {85, 90},
        cs \in {40, 45, 50, 55}, br \in {20, 30} }

ScreenFeatures ==
    { Feat(300, 750, 0, -50, Relaxed), Feat(150, 600, 0, 0, LowBrow) }

MaxScreenFrames == 2

InitScreen == Init /\ MEDIAPIPE_OK /\ CALIB = EmptyCalib

NextScreen ==
    \/ \E st \in ScreenStats : ScreenFrame(st)
    \/ ScreenUndecodable
    \/ ScreenEmptyUpload
    \/ nframes < MaxScreenFrames /\ Undecodable
    \/ nframes < MaxScreenFrames /\ EmptyUpload
    \/ nframes < MaxScreenFrames /\ NoFaceFrame
    \/ nframes < MaxScreenFrames /\ \E f \in ScreenFeatures : FaceFrame(f)

SpecScreen == InitScreen /\ [][NextScreen]_vars

\* The frame ear = 0.18, nose_pos = 0.7, roll = 20 degrees either way under
\* the fallback thresholds, met in the states that frames without landmarks,
\* level relaxed frames and frames like itself lead to
ScenarioFeatures ==
    { Feat(180, 700, 20, 0, Relaxed), Feat(180, 700, -20, 0, Relaxed),
      Feat(300, 600, 0, 0, Relaxed) }

MaxScenarioFrames == 5

InitScenario == Init /\ MEDIAPIPE_OK /\ CALIB = EmptyCalib

NextScenario ==
    \/ nframes < MaxScenarioFrames /\ NoFaceFrame
    \/ nframes < MaxScenarioFrames /\ \E f \in ScenarioFeatures : FaceFrame(f)

SpecScenario == InitScenario /\ [][NextScenario]_vars

\* The ramp as a function of the window: every content a window of 1 to 10
\* off-centre indicators can have, and one evaluation of lines 298-305 on it
Windows == UNION { [1..n -> {0, 1}] : n \in 1..MaxLen }

InitRamp ==
    /\ MEDIAPIPE_OK = TRUE
    /\ CALIB = EmptyCalib
    /\ prev_emotion = "neutral"
    /\ prev_conf = 50
    /\ head_down_n = 0
    /\ eyes_low_n = 0
    /\ gaze_history \in Windows
    /\ distraction_history = << >>
    /\ frame = [kind |-> "none", feat |-> NoFeat]
    /\ res = NoResult
    /\ nframes = 0
    /\ no_face_run = 0
    /\ same_run = 0
    /\ same_inst_run = 0
    /\ last_face = << "neutral", 50 >>
    /\ face_log = << >>
    /\ th = NoThresholds
    /\ raw_d = -1
    /\ pc = [t \in Requests |-> "idle"]
    /\ loc = [t \in Requests |-> NoLocals]
    /\ session = 1
    /\ left = [c \in Sessions |-> state]
    /\ screen_req = NoScreen
    /\ screen_res = NoScreenResult
    /\ eye = NoEye
    /\ ear_out = -1

\* server.py:298-305
EvalRamp ==
    /\ raw_d = -1
    /\ raw_d' = Ramp(Sum(gaze_history), Max(Len(gaze_history), 1))
    /\ UNCHANGED << pool, session, left, side >>
    /\ UNCHANGED << state, env, frame, res, nframes, no_face_run, same_run,
                    same_inst_run, last_face, face_log, th, pool >>

NextRamp ==
    \/ EvalRamp

SpecRamp == InitRamp /\ [][NextRamp]_vars

----------------------------------------------------------------------------
(* Claims *)

Last(q) == q[Len(q)]

NoFaceKinds == {"no_face", "haar_no_face"}

\* C1: whatever the frame (face, no face, undecodable, Haar fallback), the
\* returned fatigue_score lies in [0.02, 0.98]; on a face frame it is
\* clamp(0.35*pitch_factor + 0.35*ear_factor + 0.15*roll_factor
\*       + 0.15*min(head_down_streak/5, 1), 0.02, 0.98), each factor in [0,1],
\* to the three decimals the result carries.
C1_FatigueRange ==
    /\ frame.kind # "none" => res.fatigue_score \in 20..980
    /\ frame.kind = "face" =>
         LET f == frame.feat
             pitch == pitch_f(f, CALIB)                 \* over 1000
             earN == EarNum(f, CALIB)                   \* over EarDen
             earD == EarDen(CALIB)
             rollN == RollNum(f)                        \* over 18
             strk == Min(head_down_n, 5)                \* over 5
             \* 1000 * (0.35p + 0.35e + 0.15r + 0.15s) = 7*pitch/20 + 350*earN/earD
             \*   + 25*rollN/3 + 30*strk, over the common denominator D
             D == 60 * earD
             sum == 21 * pitch * earD + 21000 * earN + 500 * rollN * earD
                    + 1800 * strk * earD
             clamped == Max(20 * D, Min(980 * D, sum))
         IN  /\ pitch \in 0..1000 /\ earN \in 0..earD /\ rollN \in 0..18
             /\ 2 * Abs(res.fatigue_score * D - clamped) <= D

\* C1 witness: a face frame whose weighted sum exceeds 0.98, returned as 0.98
C1_Witness ==
    /\ frame.kind = "face"
    /\ res.fatigue_score = 980
    /\ FatigueNum(frame.feat, head_down_n, CALIB) > 980 * FatigueDen(CALIB)

\* C2: gaze_history and distraction_history never hold more than 10 entries;
\* a face frame pushes one entry onto each, and a push onto a window that
\* already holds 10 evicts exactly the oldest entry and keeps the other 9 in
\* order, so the entry pushed first is gone after the 11th push.
C2_Fifo(q, q2) ==
    IF Len(q) = 10
    THEN Len(q2) = 10 /\ SubSeq(q2, 1, 9) = Tail(q)
    ELSE Len(q2) = Len(q) + 1 /\ SubSeq(q2, 1, Len(q)) = q

C2_WindowsBounded ==
    [][ /\ Len(gaze_history') <= 10
        /\ Len(distraction_history') <= 10
        /\ frame'.kind = "face" =>
             /\ C2_Fifo(gaze_history, gaze_history')
             /\ C2_Fifo(distraction_history, distraction_history')
             /\ Last(gaze_history') = IsOffCenter(frame'.feat)
        /\ frame'.kind # "face" =>
             UNCHANGED << gaze_history, distraction_history >> ]_vars

\* C2 witness: an 11th consecutive push has gone onto full windows
C2_Witness ==
    /\ same_run >= 11
    /\ Len(gaze_history) = 10
    /\ Len(distraction_history) = 10

\* C3: head_down_n and eyes_low_n are never negative; a face frame sets
\* head_down_n to head_down_n + 1 if nose_pos > th_nose, else to
\* max(0, head_down_n - 1), and eyes_low_n likewise on ear < th_ear; no frame
\* of any kind lowers either counter by more than 1.
C3_Streaks ==
    [][ /\ head_down_n' \in Nat
        /\ eyes_low_n' \in Nat
        /\ head_down_n' >= head_down_n - 1
        /\ eyes_low_n' >= eyes_low_n - 1
        /\ frame'.kind = "face" =>
             /\ head_down_n' =
                  IF 2 * frame'.feat.nose_pos > th_nose_x2(CALIB)
                  THEN head_down_n + 1
                  ELSE (IF head_down_n >= 1 THEN head_down_n - 1 ELSE 0)
             /\ eyes_low_n' =
                  IF 2 * frame'.feat.ear < th_ear_x2(CALIB)
                  THEN eyes_low_n + 1
                  ELSE (IF eyes_low_n >= 1 THEN eyes_low_n - 1 ELSE 0) ]_vars

\* C3 witness: a face frame with the head not down and the eyes not low has
\* lowered both counters, which are still at least 1
C3_Witness ==
    /\ frame.kind = "face"
    /\ 2 * frame.feat.nose_pos <= th_nose_x2(CALIB)
    /\ 2 * frame.feat.ear >= th_ear_x2(CALIB)
    /\ head_down_n >= 1
    /\ eyes_low_n >= 1

\* C4 (as claimed): on a face frame body_action is the first match of
\* head_tilt (|roll| > 15), head_down (nose_pos > th_nose), looking_up
\* (nose_pos < 0.6*th_nose), stressed (fatigue_score > 0.5 and
\* head_down_streak > 3 and last_emotion in {sad, neutral, fear}), else normal,
\* an earlier rule winning over a later one.
C4_FirstMatch(f, fatigue, n, emotion, C) ==
    IF Abs(f.roll) > 15 THEN "head_tilt"
    ELSE IF 2 * f.nose_pos > th_nose_x2(C) THEN "head_down"
    ELSE IF 10 * f.nose_pos < 3 * th_nose_x2(C) THEN "looking_up"
    ELSE IF fatigue > 500 /\ n > 3 /\ emotion \in {"sad", "neutral", "fear"}
    THEN "stressed"
    ELSE "normal"

C4_BodyActionPriority ==
    [][ frame'.kind = "face" =>
          res'.body_action =
            C4_FirstMatch(frame'.feat, res'.fatigue_score, head_down_n',
                          prev_emotion, CALIB) ]_vars

\* C5 (as claimed): a frame without a face is reported as body_action = no_face
\* only when it is at least the 6th such frame in a row.
C5_NoFaceGrace ==
    res.body_action = "no_face" => no_face_run > 5

\* C6 (as claimed): a frame without a face leaves head_down_n, eyes_low_n,
\* both windows and prev_emotion / prev_conf unchanged.
C6_NoFaceFrameEffect ==
    [][ frame'.kind \in NoFaceKinds => UNCHANGED state ]_vars

\* C7 (as claimed): a frame without landmarks whose run of such frames has not
\* exceeded 5 returns the fatigue_score, distraction_score and body_action of
\* the frame before it; once the run exceeds 5 it returns a distraction_score
\* between 50 and 60.
C7_ReusePrevious ==
    [][ (frame'.kind = "no_face" /\ frame.kind # "none") =>
          IF no_face_run' <= 5
          THEN /\ res'.fatigue_score = res.fatigue_score
               /\ res'.distraction_score = res.distraction_score
               /\ res'.body_action = res.body_action
          ELSE res'.distraction_score \in 5000..6000 ]_vars

\* C8: a face frame stores the emotion and confidence it returns in
\* prev_emotion / prev_conf, and a frame without a face returns the pair stored
\* by the most recent face frame (neutral / 0.5 before any face frame).
C8_LastEmotion ==
    /\ frame.kind = "face" =>
         /\ << res.emotion, res.emotion_confidence >> = last_face
         /\ << prev_emotion, prev_conf >> = last_face
    /\ frame.kind \in NoFaceKinds =>
         << res.emotion, res.emotion_confidence >> = last_face

\* C8 witness: a frame without a face that follows a face frame classified as
\* something other than the initial pair
C8_Witness ==
    /\ frame.kind = "no_face"
    /\ last_face[1] # "neutral"
    /\ res.emotion = last_face[1]

\* C9: every entry of distraction_history lies in [2, 95], and so does the
\* distraction_score returned for any frame.
C9_DistractionRange ==
    /\ \A i \in DOMAIN distraction_history :
         distraction_history[i] \in 200..9500
    /\ frame.kind # "none" => res.distraction_score \in 200..9500

\* C9 witness: a face frame over a full window whose smoothed score shows the
\* ramp and the head-down bonus together
C9_Witness ==
    /\ frame.kind = "face"
    /\ Len(distraction_history) = 10
    /\ Last(distraction_history) = 5500
    /\ res.distraction_score > 4000

\* C10 (as claimed): once the same features have been fed for 10 or more
\* consecutive face frames, the distraction_score returned equals the instant
\* (clamped) value of the frame and stays the same for each further such frame.
C10_TenFramesConverge ==
    [][ /\ (frame'.kind = "face" /\ same_run' >= 10) =>
             res'.distraction_score = Last(distraction_history')
        /\ (same_run >= 10 /\ same_run' > same_run) =>
             res'.distraction_score = res.distraction_score ]_vars

\* C10 (amended): once the same features have pushed the same instant value
\* for 10 or more consecutive face frames, the distraction_score returned
\* equals that value, and stays the same for each further frame that pushes it.
C10_TenInstantsConverge ==
    [][ /\ (frame'.kind = "face" /\ same_inst_run' >= 10) =>
             res'.distraction_score = Last(distraction_history')
        /\ (same_inst_run >= 10 /\ same_inst_run' > same_inst_run) =>
             res'.distraction_score = res.distraction_score ]_vars

\* C10 witness: the eleventh frame in a row to push the same instant value,
\* above the floor, after an earlier frame of another kind
C10_Witness ==
    /\ same_inst_run >= 11
    /\ nframes > same_inst_run
    /\ res.distraction_score > 200

\* C11: on a face frame the value pushed onto distraction_history is
\* clamp(ramp(off_ratio) + (10 if |roll| > 15 and off_ratio > 0.4)
\*       + (15 if the returned body_action is head_down and the updated
\*          head_down_n > 5), 2, 95), with ramp = 40*off_ratio above 0.6,
\* 15*off_ratio in (0.3, 0.6], else 0, and the distraction_score returned is
\* the mean of distraction_history after the push, each to the two decimals
\* the code keeps.
C11_InstantAndMean ==
    [][ frame'.kind = "face" =>
          LET k == Sum(gaze_history')
              m == Len(gaze_history')
              \* 100 * m * (claimed value), off_ratio = k / m
              ramp == IF 10 * k > 6 * m THEN 4000 * k
                      ELSE IF 10 * k > 3 * m /\ 10 * k <= 6 * m THEN 1500 * k
                      ELSE 0
              tilt == IF Abs(frame'.feat.roll) > 15 /\ 10 * k > 4 * m
                      THEN 1000 * m ELSE 0
              down == IF res'.body_action = "head_down" /\ head_down_n' > 5
                      THEN 1500 * m ELSE 0
              clamped == Max(200 * m, Min(9500 * m, ramp + tilt + down))
              n == Len(distraction_history')
          IN  /\ m >= 1 /\ n >= 1
              /\ 2 * Abs(Last(distraction_history') * m - clamped) <= m
              /\ 2 * Abs(res'.distraction_score * n - Sum(distraction_history'))
                   <= n ]_vars

\* C11 witness: a head-down frame whose updated streak is exactly 6 has pushed
\* ramp plus the head-down bonus, over a window that still holds a value
\* pushed with the tilt bonus
C11_Witness ==
    /\ frame.kind = "face"
    /\ res.body_action = "head_down"
    /\ head_down_n = 6
    /\ Last(distraction_history) = 5500
    /\ \E i \in DOMAIN distraction_history : distraction_history[i] = 5000

\* C12: over the ratios k/n a window can hold (0 <= k <= n <= 10) the ramp
\* never decreases when off_ratio grows, is exactly 0 for every
\* off_ratio <= 0.3 (3/10 included), and takes the values 0, 7.5 and 32 at
\* off_ratio 0.2, 0.5 and 0.8.
C12_RampMonotone ==
    raw_d # -1 =>
      LET k == Sum(gaze_history)
          n == Len(gaze_history)
      IN  /\ \A w \in Windows :
                k * Len(w) <= Sum(w) * n =>
                  raw_d * Len(w) <= Ramp(Sum(w), Len(w)) * n
          /\ 10 * k <= 3 * n => raw_d = 0
          /\ 10 * k = 2 * n => raw_d = 0
          /\ 10 * k = 5 * n => 10 * raw_d = 75 * 100 * n
          /\ 10 * k = 8 * n => raw_d = 32 * 100 * n

\* C12 witness: the ramp has been evaluated on a full window holding exactly
\* 3 off-centre entries and is 0
C12_Witness ==
    /\ raw_d = 0
    /\ Len(gaze_history) = 10
    /\ Sum(gaze_history) = 3

\* C13: after any sequence of frames handled one at a time, gaze_history is,
\* in order, the off-centre indicators of the most recent min(n, 10) of the n
\* frames with landmarks, frames without a face or without a decodable image
\* adding nothing, and the value a face frame pushes onto distraction_history
\* is computed from off_ratio = their sum / their count.
C13_LastTen(q) ==
    SubSeq(q, Len(q) - Min(Len(q), 10) + 1, Len(q))

C13_GazeWindowIsLog ==
    /\ gaze_history = C13_LastTen(face_log)
    /\ frame.kind = "face" =>
         Last(distraction_history) \in
           Instant(C13_LastTen(face_log), frame.feat, res.body_action, head_down_n)

\* C13 witness: more than 10 frames with landmarks, centred and off-centre,
\* then a frame without landmarks: the window has dropped an entry unlike the
\* one now in its place and the last frame has added nothing
C13_Witness ==
    /\ Len(face_log) > 10
    /\ frame.kind = "no_face"
    /\ face_log[1] # gaze_history[1]
    /\ Sum(gaze_history) \in 4..6

\* C14 (as claimed): once distraction_history holds 10 entries, the
\* distraction_score returned for a frame, with or without a face, differs
\* from the one returned for the frame just before it by at most 9.3.
C14_NoSwing ==
    [][ ( /\ Len(distraction_history) = 10
          /\ frame.kind \in {"face", "no_face"}
          /\ frame'.kind \in {"face", "no_face"} ) =>
          Abs(res'.distraction_score - res.distraction_score) <= 930 ]_vars

\* C15: on every face frame the (emotion, confidence) returned is the first
\* match of: surprised 0.9 (mouth_ratio > 4*th_mouth and brow_raise >
\* 2.5*th_brow); happy 0.85 (mouth_ratio > th_mouth and lip_stretch > 0.14);
\* tired 0.9 (ear < th_ear and pitch_factor > 0.5); sad 0.75 if ear < th_ear
\* else angry 0.7 (brow_raise < th_brow and mouth_ratio < 0.5*th_mouth);
\* tired 0.85 (fatigue_score > 0.6); tired 0.8 (eyes_low_n, as updated by this
\* frame, > 4); else neutral 0.9.
C15_Rules(f, fatigue, el, C) ==
    LET mouth == f.m_ratio
        brow == f.brow_raise
        low == 2 * f.ear < th_ear_x2(C)
    IN  << << 10 * mouth > 4 * th_mouth_x10(C) /\ 100 * brow > 25 * th_brow_x10(C),
              << "surprised", 90 >> >>,
           << 10 * mouth > th_mouth_x10(C) /\ f.lip_stretch > 140,
              << "happy", 85 >> >>,
           << low /\ pitch_f(f, C) > 500,
              << "tired", 90 >> >>,
           << 10 * brow < th_brow_x10(C) /\ 10 * mouth * 2 < th_mouth_x10(C),
              IF low THEN << "sad", 75 >> ELSE << "angry", 70 >> >>,
           << fatigue > 600,
              << "tired", 85 >> >>,
           << el > 4,
              << "tired", 80 >> >>,
           << TRUE,
              << "neutral", 90 >> >> >>

C15_FirstMatch(rules) ==
    LET i == CHOOSE j \in DOMAIN rules :
                 rules[j][1] /\ \A h \in 1..(j - 1) : ~rules[h][1]
    IN  rules[i][2]

C15_EmotionPriority ==
    [][ frame'.kind = "face" =>
          << res'.emotion, res'.emotion_confidence >> =
            C15_FirstMatch(C15_Rules(frame'.feat, res'.fatigue_score,
                                     eyes_low_n', CALIB)) ]_vars

\* C15 witness: a fifth frame in a row with the eyes closed, the head level
\* and a relaxed face, not fatigued, classified tired 0.8 by the streak alone
C15_Witness ==
    /\ frame.kind = "face"
    /\ 2 * frame.feat.ear < th_ear_x2(CALIB)
    /\ pitch_f(frame.feat, CALIB) <= 500
    /\ res.fatigue_score <= 600
    /\ eyes_low_n = 5
    /\ res.emotion = "tired"
    /\ res.emotion_confidence = 80

\* C16 (as claimed): every result of the face endpoint, whatever the kind of
\* frame (face, no face, undecodable image, Haar fallback) and whatever the
\* smoothing state, has body_action in {normal, head_down, looking_up,
\* head_tilt, stressed, no_face}.
C16_BodyActionSet ==
    frame.kind # "none" =>
      res.body_action \in { "normal", "head_down", "looking_up", "head_tilt",
                            "stressed", "no_face" }

\* C17: the thresholds a face frame derives are 0.22 / 0.65 / 0.08 / 0.015
\* under an empty profile; th_ear and th_nose are the fatigue/focus means only
\* when both categories are present, else the fallback; th_mouth is
\* 0.7 * happy.avg.mouth_ratio only when happy is present; th_brow is
\* 1.2 * sad.avg.brow_raise only when sad is present; and no threshold depends
\* on a category it is not derived from.
C17_Same(C, D, cats) ==
    \A c \in cats : (c \in DOMAIN C) = (c \in DOMAIN D)
                     /\ (c \in DOMAIN C => C[c] = D[c])

C17_ThresholdDerivation ==
    (frame.kind = "face" /\ CALIB \in WellFormedProfiles) =>
      LET both == {"fatigue", "focus"} \subseteq DOMAIN CALIB
      IN  /\ CALIB = EmptyCalib =>
                /\ th.ear_x2 = 2 * 220 /\ th.nose_x2 = 2 * 650
                /\ th.mouth_x10 = 10 * 80 /\ th.brow_x10 = 10 * 15
          /\ th.ear_x2 = IF both
                         THEN CALIB["fatigue"].avg.ear + CALIB["focus"].avg.ear
                         ELSE 2 * 220
          /\ th.nose_x2 = IF both
                          THEN CALIB["fatigue"].avg.nose_pos
                               + CALIB["focus"].avg.nose_pos
                          ELSE 2 * 650
          /\ th.mouth_x10 = IF "happy" \in DOMAIN CALIB
                            THEN 7 * CALIB["happy"].avg.mouth_ratio
                            ELSE 10 * 80
          /\ th.brow_x10 = IF "sad" \in DOMAIN CALIB
                           THEN 12 * CALIB["sad"].avg.brow_raise
                           ELSE 10 * 15
          /\ \A D \in WellFormedProfiles :
                /\ C17_Same(CALIB, D, {"fatigue", "focus"}) =>
                     /\ th_ear_x2(D) = th.ear_x2
                     /\ th_nose_x2(D) = th.nose_x2
                /\ C17_Same(CALIB, D, {"happy"}) => th_mouth_x10(D) = th.mouth_x10
                /\ C17_Same(CALIB, D, {"sad"}) => th_brow_x10(D) = th.brow_x10

\* C17 witness: a face frame under a profile with fatigue, happy and stress
\* but no focus or sad: th_ear, th_nose and th_brow at their fallbacks,
\* th_mouth derived
C17_Witness ==
    /\ frame.kind = "face"
    /\ DOMAIN CALIB = {"fatigue", "happy", "stress"}
    /\ th.ear_x2 = 440
    /\ th.brow_x10 = 150
    /\ th.mouth_x10 = 1050

\* C18 (as claimed): whatever calibration.json holds (absent, unparseable,
\* parsed with a category lacking its avg record or the feature read from it,
\* or with averages that make a threshold zero), the import completes and no
\* later frame raises: every request gets a result.
C18_CalibrationNeverFatal ==
    frame.kind # "none" => res # ServerError

\* a request is between its first read and its last write of the smoothing
\* state: line 181 has run, and line 209 (no landmarks) or 364 (landmarks)
\* has not finished
InSection(t) ==
    pc[t] \in { "182", "209", "209s", "257", "258", "269", "270", "282", "297",
                "298", "313", "314", "363", "364" }

\* a request has finished its last write
Written(t) == pc[t] \in { "210", "366", "done" }

\* C19 (as claimed): at no point are two analyses of face frames at once
\* between their first read and their last write of the streak counters, the
\* windows or the last emotion.
C19_SingleWriter ==
    \A a, b \in Requests :
        a # b => ~ (InSection(a) /\ InSection(b))

\* C20 (as claimed): if request a is received before request b, every write
\* of a to the smoothing state has taken effect before b reads or writes it.
C20_ArrivalOrder ==
    \A a, b \in Requests :
        (a < b /\ (InSection(b) \/ Written(b))) => Written(a)

\* ---------------------------------------------------------------------
\* ear(idx), server.py:240-245 and calibrate.py:50-55, on its own.
\* Coordinates are in 1/1000 of the normalised image; the ratio is in 1/1000.

\* np.linalg.norm of the difference of two points, to the 1/1000 below
Norm(p, q) ==
    LET s == (p[1] - q[1]) * (p[1] - q[1]) + (p[2] - q[2]) * (p[2] - q[2])
    IN  CHOOSE r \in 0..1415 : r * r <= s /\ s < (r + 1) * (r + 1)

\* mutant: the degenerate contour answers 0
earZeroGuard(pts) ==
    LET A == Norm(pts[2], pts[6])
        B == Norm(pts[3], pts[5])
        C == Norm(pts[1], pts[4])
    IN  IF C > 0 THEN RoundSet((A + B) * 1000, 2 * C) ELSE {0}

\* server.py:240-245: pts[k] of the code is pts[k + 1] here
ear(pts) ==
    LET A == Norm(pts[2], pts[6])
        B == Norm(pts[3], pts[5])
        C == Norm(pts[1], pts[4])
    IN  IF C > 0 THEN RoundSet((A + B) * 1000, 2 * C) ELSE {250}

\* landmark positions inside the unit square whose distances are exact
EyePoints == { << 0, 0 >>, << 300, 400 >>, << 600, 0 >> }

Contours == [1..6 -> EyePoints]

InitEar ==
    /\ MEDIAPIPE_OK = TRUE
    /\ CALIB = EmptyCalib
    /\ prev_emotion = "neutral"
    /\ prev_conf = 50
    /\ head_down_n = 0
    /\ eyes_low_n = 0
    /\ gaze_history = << >>
    /\ distraction_history = << >>
    /\ frame = [kind |-> "none", feat |-> NoFeat]
    /\ res = NoResult
    /\ nframes = 0
    /\ no_face_run = 0
    /\ same_run = 0
    /\ same_inst_run = 0
    /\ last_face = << "neutral", 50 >>
    /\ face_log = << >>
    /\ th = NoThresholds
    /\ raw_d = -1
    /\ pc = [t \in Requests |-> "idle"]
    /\ loc = [t \in Requests |-> NoLocals]
    /\ session = 1
    /\ left = [c \in Sessions |-> state]
    /\ screen_req = NoScreen
    /\ screen_res = NoScreenResult
    /\ eye \in Contours
    /\ ear_out = -1

\* server.py:247-248: one call of ear on the contour
EvalEar ==
    /\ ear_out = -1
    /\ ear_out' \in ear(eye)
    /\ UNCHANGED << state, env, frame, res, nframes, no_face_run, same_run,
                    same_inst_run, last_face, aux, pool, session, left,
                    screen_req, screen_res, eye >>

NextEar ==
    \/ EvalEar

SpecEar == InitEar /\ [][NextEar]_vars

\* ---------------------------------------------------------------------
\* Requests that raise the two streak counters and let them fall again, under
\* the fallback thresholds: a head-down frame with low eyes, a head-down
\* frame with open eyes, and two frames with the head level and the eyes
\* open, one of them exactly at th_nose and th_ear
DecayFeatures ==
    { Feat(180, 700, 0, 0, Relaxed), Feat(300, 700, 0, 0, Relaxed),
      Feat(300, 600, 0, 0, Relaxed), Feat(220, 650, 0, 0, Relaxed) }

MaxDecayFrames == 12

InitDecay == Init /\ MEDIAPIPE_OK /\ CALIB = EmptyCalib

NextDecay ==
    \/ nframes < MaxDecayFrames /\ NoFaceFrame
    \/ nframes < MaxDecayFrames /\ \E f \in DecayFeatures : FaceFrame(f)

SpecDecay == InitDecay /\ [][NextDecay]_vars

\* C21 (as claimed): every session has its own smoothing state: a request
\* finds head_down_n, eyes_low_n, both windows and the last emotion as the
\* last request of its own session left them (as at start-up for its first
\* request), whatever other sessions posted in between.
C21_SessionIsolation ==
    [][ nframes' = nframes + 1 => state = left[session] ]_vars

\* C22: for every combination of the image statistics the screen result is
\* the first match of CODING/3 (dark_ratio > 0.4 and edge_density > 0.08),
\* READING/8 (edge_density > 0.12), WATCHING/45 (uniformity > 0.85 and
\* color_std > 40), SOCIAL_MEDIA/60 (color_std > 50 and edge_density < 0.06),
\* IDLE/20 (avg_brightness < 30 and edge_density < 0.03), else BROWSING/15; the
\* label alone determines the score, and every label returned is one of
\* CODING, READING, WATCHING, SOCIAL_MEDIA, IDLE, BROWSING, UNKNOWN.
C22_Rules(st) ==
    << << st.dark_pix > 40 /\ st.edge_d > 8, "CODING" >>,
       << st.edge_d > 12, "READING" >>,
       << st.uniform > 85 /\ st.color_std > 40, "WATCHING" >>,
       << st.color_std > 50 /\ st.edge_d < 6, "SOCIAL_MEDIA" >>,
       << st.avg_bright < 30 /\ st.edge_d < 3, "IDLE" >>,
       << TRUE, "BROWSING" >> >>

C22_Score ==
    [ CODING |-> 300, READING |-> 800, WATCHING |-> 4500,
      SOCIAL_MEDIA |-> 6000, IDLE |-> 2000, BROWSING |-> 1500, UNKNOWN |-> 1000 ]

C22_ScreenFirstMatch ==
    /\ screen_req.kind = "image" =>
         screen_res.activity = C15_FirstMatch(C22_Rules(screen_req))
    /\ (screen_req.kind # "none" /\ screen_res # ScreenError) =>
         /\ screen_res.activity \in DOMAIN C22_Score
         /\ screen_res.distraction_score = C22_Score[screen_res.activity]

\* C22 witness: a dark, busy image whose edge density also passes the READING
\* test, classified CODING
C22_Witness ==
    /\ screen_req.kind = "image"
    /\ screen_req.dark_pix > 40
    /\ screen_req.edge_d > 12
    /\ screen_res.activity = "CODING"

\* C23: a screen analysis neither reads nor writes the smoothing state: in
\* any order of screen and face requests, a screen request leaves
\* head_down_n, eyes_low_n, both windows, the last emotion and the last face
\* result as they were, and its own result is a function of its image alone.
C23_ScreenSharesNothing ==
    [][ nframes' = nframes =>
          /\ UNCHANGED << state, res, frame >>
          /\ screen_req'.kind = "image" => screen_res' = Classify(screen_req')
          /\ screen_req'.kind = "undecodable" =>
               screen_res' = [ activity |-> "UNKNOWN", distraction_score |-> 1000 ]
      ]_vars

\* C23 witness: a screen image has been classified SOCIAL_MEDIA (score 60)
\* between two face frames that filled the windows with two entries
C23_Witness ==
    /\ screen_res.activity = "SOCIAL_MEDIA"
    /\ frame.kind = "face"
    /\ Len(distraction_history) = 2
    /\ Len(gaze_history) = 2
    /\ res.distraction_score < 6000

\* C24 (as claimed): an upload that cannot be decoded never ends in an error
\* and never changes state: the face endpoint returns a default result with
\* gaze_direction UNKNOWN and leaves the streak counters, both windows and
\* the last emotion and confidence unchanged; the screen endpoint returns
\* activity UNKNOWN with the fixed score 10.
C24_Undecodable ==
    [][ /\ (nframes' = nframes + 1 /\ frame'.kind \in {"undecodable", "empty"}) =>
             /\ res' # ServerError
             /\ res'.gaze_direction = "UNKNOWN"
             /\ UNCHANGED state
        /\ screen_req'.kind \in {"undecodable", "empty"} =>
             screen_res' = [ activity |-> "UNKNOWN", distraction_score |-> 1000 ]
      ]_vars

\* C25 (as claimed): in every reachable state a face frame with ear = 0.18,
\* nose_pos = 0.7 and |roll| = 20 under th_ear = 0.22 and th_nose = 0.65 is
\* labelled head_tilt and gets a fatigue_score between 0.6 and 0.8.
C25_TiltScenario ==
    ( /\ frame.kind = "face"
      /\ frame.feat.ear = 180 /\ frame.feat.nose_pos = 700
      /\ Abs(frame.feat.roll) = 20
      /\ th.ear_x2 = 440 /\ th.nose_x2 = 1300 ) =>
        /\ res.body_action = "head_tilt"
        /\ res.fatigue_score \in 600..800

\* C25 (amended): in every reachable state whose head_down_n is at most 2
\* once the frame has counted itself, a face frame with ear = 0.18,
\* nose_pos = 0.7 and |roll| = 20 under th_ear = 0.22 and th_nose = 0.65 is
\* labelled head_tilt and gets a fatigue_score between 0.6 and 0.8.
C25_TiltScenarioShortStreak ==
    ( /\ frame.kind = "face"
      /\ frame.feat.ear = 180 /\ frame.feat.nose_pos = 700
      /\ Abs(frame.feat.roll) = 20
      /\ th.ear_x2 = 440 /\ th.nose_x2 = 1300
      /\ head_down_n <= 2 ) =>
        /\ res.body_action = "head_tilt"
        /\ res.fatigue_score \in 600..800

\* C25 witness: the frame right after one like it, with the streak at 2:
\* head_tilt, fatigue 0.792
C25_Witness ==
    /\ frame.kind = "face"
    /\ frame.feat.ear = 180
    /\ same_run = 2
    /\ head_down_n = 2
    /\ res.body_action = "head_tilt"
    /\ res.fatigue_score = 792

\* C26 (as claimed): the eye aspect ratio of a contour with coordinates in
\* [0,1] and p0, p3 apart lies in [0, 1]; with p0 = p3 it is exactly 0.25.
C26_EarInUnit ==
    ear_out # -1 =>
        IF eye[1] # eye[4] THEN ear_out \in 0..1000 ELSE ear_out = 250

\* C26 (amended): the eye aspect ratio of a contour with coordinates in
\* [0,1] and p0, p3 apart is finite and at least 0 (it may exceed 1); with
\* p0 = p3 it is exactly 0.25.
C26_EarNonNegative ==
    ear_out # -1 =>
        IF eye[1] # eye[4] THEN ear_out >= 0 ELSE ear_out = 250

\* C26 witness: both lids 0.6 apart over an eye 0.5 wide give 1.2
C26_Witness ==
    /\ eye[1] # eye[4]
    /\ ear_out = 1200

\* the degenerate contour, evaluated
C26_WitnessDegenerate ==
    /\ eye[1] = eye[4]
    /\ ear_out = 250

\* a finished request whose frame was head-down with the eyes below th_ear
\* (the label of a frame with fewer than four head-down frames behind it, and
\* the reported eye opening, depend on the frame alone)
DownAndLow(t) ==
    /\ pc[t] = "done"
    /\ loc[t].kind = "face"
    /\ loc[t].res.body_action = "head_down"
    /\ 2 * loc[t].res.blink_rate < th_ear_x2(CALIB)

\* C27 (as claimed): when all the requests sent together were face frames
\* with nose_pos > th_nose and ear < th_ear, head_down_n and eyes_low_n both
\* end higher than they started by the number of requests, whatever the
\* interleaving.
C27_NoLostUpdate ==
    (\A t \in Requests : DownAndLow(t)) =>
        /\ head_down_n = MaxRequests
        /\ eyes_low_n = MaxRequests

\* the pairs that one face frame has stored whole, and the initial pair
StoredPairs ==
    { << "neutral", 50 >> } \cup
    { loc[u].new : u \in { v \in Requests : pc[v] = "366" } } \cup
    { << loc[u].res.emotion, loc[u].res.emotion_confidence >> :
        u \in { v \in Requests : pc[v] = "done" /\ loc[v].kind = "face" } }

\* C28 (as claimed): the emotion and the confidence that a frame without
\* landmarks reports are a pair stored whole by one face frame, or the
\* initial pair, whatever the interleaving.
C28_NeverTorn ==
    \A t \in Requests :
        (pc[t] = "done" /\ loc[t].kind = "no_face") =>
            << loc[t].res.emotion, loc[t].res.emotion_confidence >> \in StoredPairs

\* C29: a face frame with |roll| > 15 is never labelled head_down, so the
\* +10 and the +15 bonus never meet: every entry of distraction_history is
\* at most 55 (below the clamp at 95) and the distraction_score of a face
\* frame is at most 55.
C29_BonusesExclusive ==
    /\ (frame.kind = "face" /\ Abs(frame.feat.roll) > 15) =>
           res.body_action # "head_down"
    /\ \A i \in DOMAIN distraction_history : distraction_history[i] <= 5500
    /\ frame.kind = "face" => res.distraction_score <= 5500

\* C29 witness: a tilted frame with the nose below th_nose and a head-down
\* streak past 5 has pushed 40 + 10, after a level one that pushed 40 + 15
C29_Witness ==
    /\ frame.kind = "face"
    /\ Abs(frame.feat.roll) > 15
    /\ 2 * frame.feat.nose_pos > th.nose_x2
    /\ head_down_n > 5
    /\ Last(distraction_history) = 5000
    /\ \E i \in DOMAIN distraction_history : distraction_history[i] = 5500

\* C30: the stored emotion is always one of neutral, happy, sad, angry,
\* surprised, tired (never fear), and a face frame is labelled stressed only
\* when the emotion stored before it, the one the previous face frame wrote,
\* was sad or neutral.
C30_StoredEmotion ==
    [][ /\ prev_emotion' \in {"neutral", "happy", "sad", "angry", "surprised", "tired"}
        /\ ( /\ nframes' = nframes + 1
             /\ frame'.kind = "face"
             /\ res'.body_action = "stressed" ) =>
               prev_emotion \in {"sad", "neutral"} ]_vars

\* C30 witness: a frame labelled stressed whose own emotion, stored by it, is
\* tired
C30_Witness ==
    /\ frame.kind = "face"
    /\ res.body_action = "stressed"
    /\ res.emotion = "tired"
    /\ prev_emotion = "tired"

\* C32 (as claimed): with either detector, a result labelled no_face has the
\* gaze UNKNOWN, and the result of a frame with landmarks has the gaze
\* CENTER, LEFT or RIGHT.
C32_NoFaceGazeUnknown ==
    /\ res.body_action = "no_face" => res.gaze_direction = "UNKNOWN"
    /\ frame.kind = "face" => res.gaze_direction \in {"CENTER", "LEFT", "RIGHT"}

\* the frame has landmarks, nose_pos <= th_nose and ear >= th_ear
Calm(fr) ==
    /\ fr.kind = "face"
    /\ 2 * fr.feat.nose_pos <= th_nose_x2(CALIB)
    /\ 2 * fr.feat.ear >= th_ear_x2(CALIB)

\* C31: every face frame with nose_pos <= th_nose and ear >= th_ear lowers
\* head_down_n and eyes_low_n by exactly one, down to 0 and no further, so a
\* run of such frames as long as the counters' values brings both to 0,
\* where they stay; once head_down_n is 0 the frame is not labelled stressed
\* and its fatigue_score is the one with no streak term; and the counters
\* rise by one with no cap on every frame that raises them.
C31_Decay ==
    [][ nframes' = nframes + 1 =>
          /\ Calm(frame') =>
                /\ head_down_n' = Max(0, head_down_n - 1)
                /\ eyes_low_n' = Max(0, eyes_low_n - 1)
                /\ head_down_n' = 0 =>
                      /\ res'.body_action # "stressed"
                      /\ res'.fatigue_score \in Fatigue(frame'.feat, 0, CALIB)
          /\ (frame'.kind = "no_face"
                \/ (frame'.kind = "face"
                      /\ 2 * frame'.feat.nose_pos > th_nose_x2(CALIB))) =>
                head_down_n' = head_down_n + 1
          /\ (frame'.kind = "face" /\ 2 * frame'.feat.ear < th_ear_x2(CALIB)) =>
                eyes_low_n' = eyes_low_n + 1 ]_vars

\* C31 witness: a frame with the head level and the eyes open has brought
\* both counters to 0; head_down_n had passed 5, as the head-down bonus of 15
\* still in distraction_history shows
C31_Witness ==
    /\ Calm(frame)
    /\ head_down_n = 0
    /\ eyes_low_n = 0
    /\ res.body_action = "normal"
    /\ \E i \in DOMAIN distraction_history : distraction_history[i] = 1500

====
